---- MODULE Spec2Model ----
(***************************************************************************)
(* querystore: an append-only columnar store (store.go, util.go, query.go) *)
(*                                                                         *)
(* Go strings are modelled as sequences of one-character strings, so that  *)
(* strings.HasPrefix / HasSuffix / TrimSuffix / Split are computed.        *)
(* A column file is modelled as the sequence of records appended to it; a  *)
(* record is [index, data] where data is what IndexedWrite encodes.        *)
(* Model integers are non-negative, so uint64(v) and int64(u) keep the     *)
(* number.                                                                 *)
(*                                                                         *)
(* Specifications:                                                         *)
(*   Spec        one client; Append, Close, OpenColumnFS; writes may fail  *)
(*   SpecQuery   one client; Append and Query; no I/O failure              *)
(*   SpecConc    NumProcs clients appending at once; writes may fail       *)
(*   SpecReader  one ColumnReader on a sparse column, any seek targets     *)
(*   SpecTypes   one client; Append of values of changing type             *)
(*   SpecScan    one client; Append and the queries that fail              *)
(*   SpecCodec   IndexedWrite of one value, then its decoding              *)
(*   SpecLive    SpecConc's clients under fair scheduling                  *)
(*   SpecRace    NumProcs clients calling Append and Query at once         *)
(***************************************************************************)
EXTENDS Integers, Sequences, FiniteSets, TLC

\* ------------------------------------------------------------------ bounds
MaxRows == 3
MaxIOFailures == 1
NumProcs == 2
MaxSeeks == 4

Procs == 1..NumProcs
NoProc == 0

\* ----------------------------------------------------------------- strings
HasPrefix(s, prefix) ==
    /\ Len(s) >= Len(prefix)
    /\ SubSeq(s, 1, Len(prefix)) = prefix

HasSuffix(s, suffix) ==
    /\ Len(s) >= Len(suffix)
    /\ SubSeq(s, Len(s) - Len(suffix) + 1, Len(s)) = suffix

TrimSuffix(s, suffix) ==
    IF HasSuffix(s, suffix) THEN SubSeq(s, 1, Len(s) - Len(suffix)) ELSE s

\* strings.Split(s, sep) for a one-character separator
RECURSIVE SplitFrom(_, _, _)
SplitFrom(s, sep, cur) ==
    IF s = <<>> THEN <<cur>>
    ELSE IF Head(s) = sep THEN <<cur>> \o SplitFrom(Tail(s), sep, <<>>)
    ELSE SplitFrom(Tail(s), sep, Append(cur, Head(s)))

Split(s, sep) == SplitFrom(s, sep, <<>>)

extension == <<"d", "a", "t">>
indexFileName == <<"_", "_", "i", "n", "d", "e", "x">> \o <<".">> \o extension
reservedPrefix == <<"_", "_">>

\* attribute names used as inputs
ValName == <<"v", "a", "l">>
MainName == <<"m", "a", "i", "n">>
FooName == <<"_", "_", "f", "o", "o">>
NoColName == <<"z">>
IndexKey == <<"_", "_", "i", "n", "d", "e", "x">>
TimestampKey == <<"_", "_", "t", "i", "m", "e", "s", "t", "a", "m", "p">>

\* ------------------------------------------------------------ column types
ColumnTypeBool == "bool"
ColumnTypeInt64 == "int64"
ColumnTypeFloat64 == "float64"
ColumnTypeString == "string"
ColumnTypes == {ColumnTypeBool, ColumnTypeInt64, ColumnTypeFloat64, ColumnTypeString}

columnTypeToSuffix ==
    [t \in ColumnTypes |->
        CASE t = ColumnTypeBool -> <<"b", "o", "o", "l">>
          [] t = ColumnTypeInt64 -> <<"i", "n", "t", "6", "4">>
          [] t = ColumnTypeFloat64 -> <<"f", "l", "o", "a", "t", "6", "4">>
          [] t = ColumnTypeString -> <<"s", "t", "r">>]

\* biMap(columnTypeToSuffix): the type of a suffix, or "none" (ok = false)
columnSuffixToType(suffix) ==
    IF \E t \in ColumnTypes : columnTypeToSuffix[t] = suffix
    THEN CHOOSE t \in ColumnTypes : columnTypeToSuffix[t] = suffix
    ELSE "none"

makeColumnFileName(name, typ) ==
    name \o <<".">> \o columnTypeToSuffix[typ] \o <<".">> \o extension

\* ------------------------------------------------------------------ values
\* A Go value of dynamic type k: [k |-> kind, v |-> payload].
\* kinds: "bool", "int", "int64", "float64", "string".
\* A float64 is kept as its number of halves (v = 3 is 1.5).
VBool(b) == [k |-> "bool", v |-> b]
VInt(n) == [k |-> "int", v |-> n]
VInt64(n) == [k |-> "int64", v |-> n]
VFloat64(h) == [k |-> "float64", v |-> h]
VStr(s) == [k |-> "string", v |-> s]
Nil == [k |-> "nil", v |-> 0]

IntKinds == {"int", "int64"}

valueColumnType(v) ==
    CASE v.k = "bool" -> ColumnTypeBool
      [] v.k = "string" -> ColumnTypeString
      [] v.k \in IntKinds -> ColumnTypeInt64
      [] v.k = "float64" -> ColumnTypeFloat64
      [] OTHER -> ColumnTypeString

\* toUint64 / toFloat64: ok = FALSE is the panic("unsupported type")
toUint64(val) ==
    IF val.k \in IntKinds THEN [ok |-> TRUE, u |-> val.v] ELSE [ok |-> FALSE, u |-> 0]

toFloat64(val) ==
    IF val.k = "float64" THEN [ok |-> TRUE, f |-> val.v] ELSE [ok |-> FALSE, f |-> 0]

\* ------------------------------------------------------------------- codec
\* ColumnHandle.IndexedWrite up to the Write call: the record for (index, v),
\* or the panic of a failed type assertion / conversion.
EncodeRecord(typ, index, v) ==
    CASE typ = ColumnTypeBool ->
            IF v.k = "bool"
            THEN [panic |-> FALSE,
                  rec |-> [index |-> index, data |-> IF v.v THEN 1 ELSE 0]]
            ELSE [panic |-> TRUE, rec |-> <<>>]
      [] typ = ColumnTypeInt64 ->
            IF toUint64(v).ok
            THEN [panic |-> FALSE, rec |-> [index |-> index, data |-> toUint64(v).u]]
            ELSE [panic |-> TRUE, rec |-> <<>>]
      [] typ = ColumnTypeFloat64 ->
            IF toFloat64(v).ok
            THEN [panic |-> FALSE,
                  rec |-> [index |-> index, data |-> [bits |-> toFloat64(v).f]]]
            ELSE [panic |-> TRUE, rec |-> <<>>]
      [] typ = ColumnTypeString ->
            IF v.k = "string"
            THEN [panic |-> FALSE,
                  rec |-> [index |-> index,
                           data |-> [len |-> Len(v.v) % 65536, bytes |-> v.v]]]
            ELSE [panic |-> TRUE, rec |-> <<>>]

\* int16(binary.LittleEndian.Uint16(buf[8:10]))
ToInt16(u) == IF u >= 32768 THEN u - 65536 ELSE u

\* The decoding half of SeekToIndex (store.go 112-147): reads the record at
\* position pos of the file. out: "rec" (index, val decoded), "eof" (return
\* nil, nil), "err" (return nil, err) or "panic".
DecodeNext(typ, file, pos) ==
    IF pos > Len(file)
    THEN IF typ = ColumnTypeString
         THEN [out |-> "err", index |-> 0, val |-> Nil]
         ELSE [out |-> "eof", index |-> 0, val |-> Nil]
    ELSE LET r == file[pos] IN
         CASE typ = ColumnTypeString ->
                IF ToInt16(r.data.len) < 0
                THEN [out |-> "panic", index |-> r.index, val |-> Nil]
                ELSE [out |-> "rec", index |-> r.index,
                      val |-> VStr(SubSeq(r.data.bytes, 1, ToInt16(r.data.len)))]
           [] typ = ColumnTypeBool ->
                [out |-> "rec", index |-> r.index, val |-> VBool(r.data = 1)]
           [] typ = ColumnTypeInt64 ->
                [out |-> "rec", index |-> r.index, val |-> VInt64(r.data)]
           [] typ = ColumnTypeFloat64 ->
                [out |-> "rec", index |-> r.index, val |-> VFloat64(r.data.bits)]

\* ------------------------------------------------------------ ColumnReader
\* ColumnHandle.createReader once os.OpenFile has succeeded
NewReader(path, typ) ==
    [path |-> path, typ |-> typ, pos |-> 1, curIndex |-> -1, curVal |-> Nil]

NoReader == [path |-> <<>>, typ |-> "none", pos |-> 0, curIndex |-> -1, curVal |-> Nil]
NoSeek == [res |-> "none", val |-> Nil]

BackwardSeek(targetIndex, curIndex) == targetIndex < curIndex

\* ColumnReader.SeekToIndex. res: "val" (val, nil), "absent" (nil, nil),
\* "err" (nil, err), "panic". cr is the reader afterwards.
SeekToIndex(cr, file, targetIndex) ==
    IF BackwardSeek(targetIndex, cr.curIndex)
    THEN [res |-> "panic", val |-> Nil, cr |-> cr]
    ELSE IF targetIndex = cr.curIndex
    THEN [res |-> IF cr.curVal = Nil THEN "absent" ELSE "val", val |-> cr.curVal, cr |-> cr]
    ELSE LET d == DecodeNext(cr.typ, file, cr.pos)
             adv == [cr EXCEPT !.pos = cr.pos + 1]
         IN  CASE d.out = "eof" -> [res |-> "absent", val |-> Nil, cr |-> cr]
               [] d.out = "err" -> [res |-> "err", val |-> Nil, cr |-> cr]
               [] d.out = "panic" -> [res |-> "panic", val |-> Nil, cr |-> adv]
               [] d.out = "rec" ->
                    IF d.index = targetIndex
                    THEN [res |-> "val", val |-> d.val, cr |-> adv]
                    ELSE IF d.index > targetIndex
                    THEN [res |-> "absent", val |-> Nil,
                          cr |-> [adv EXCEPT !.curIndex = d.index, !.curVal = d.val]]
                    ELSE [res |-> "absent", val |-> Nil, cr |-> adv]

\* ------------------------------------------------------------------- state
VARIABLES
    dir,          \* the store directory: file name -> records appended so far
    fs,           \* the ColumnFS instance: open, nextID, columnHandles
    lock,         \* fs.lock: the process holding it, or NoProc
    now,          \* time.Now(), a logical clock
    pc,           \* per process: where it is in its current call
    fields,       \* per process: the record passed to WriteColumns
    pending,      \* per process: attributes the column loop has yet to write
    index,        \* per process: the local `index` of WriteColumns
    lastID,       \* per process: the local `lastID` of Query
    ret,          \* what the call that returned last returned
    okCount,      \* history: Append calls that returned nil
    partialCount, \* history: Append calls that failed after their index write
    ioFailures,   \* history: I/O failures the file system has produced
    rd,           \* a ColumnReader a caller holds, or NoReader
    rdRet,        \* what the last SeekToIndex on rd returned
    targets,      \* history: the targets requested on rd so far
    readFps       \* history: the files the Query that returned last left open

vars == <<dir, fs, lock, now, pc, fields, pending, index, lastID, ret,
          okCount, partialCount, ioFailures, rd, rdRet, targets, readFps>>

readerVars == <<rd, rdRet, targets>>

EmptyMap == <<>>

\* a map entry added or replaced
Put(m, k, v) == [x \in DOMAIN m \cup {k} |-> IF x = k THEN v ELSE m[x]]

NoFS == [open |-> FALSE, nextID |-> 0, columnHandles |-> EmptyMap]

\* &ColumnHandle{path: ..., typ: ...}
NewHandle(path, typ) == [path |-> path, typ |-> typ, writeFp |-> FALSE]

\* What a call returned. err: "" is nil; "reserved", "indexwrite", "columnwrite"
\* and "io" are the errors returned, named after the statement returning them;
\* "panic" is a panic leaving the call. index is the row-id an Append took, the
\* lastID a Query read.
Ret(op, p, args, idx, err, rows) ==
    [op |-> op, p |-> p, args |-> args, index |-> idx, err |-> err, rows |-> rows]

NoRet == Ret("none", NoProc, EmptyMap, 0, "", <<>>)

\* ------------------------------------------------------ ColumnHandle.Write
\* io is what the file system does: "ok", "openfail" (os.OpenFile fails) or
\* "writefail" (the file is opened, created if need be, and the write fails; a
\* failed write is taken to append nothing).
IOOutcomes(h) == IF h.writeFp THEN {"ok", "writefail"} ELSE {"ok", "openfail", "writefail"}

HandleWrite(d, h, b, io) ==
    IF io = "openfail"
    THEN [dir |-> d, h |-> h, err |-> "io"]
    ELSE LET created == IF h.path \in DOMAIN d THEN d ELSE Put(d, h.path, <<>>)
             opened == [h EXCEPT !.writeFp = TRUE]
         IN  IF io = "writefail"
             THEN [dir |-> created, h |-> opened, err |-> "io"]
             ELSE [dir |-> Put(created, h.path, created[h.path] \o b),
                   h |-> opened, err |-> ""]

\* the 16-byte index record as its two little-endian 8-byte words
IndexRecord(idx, ts) == <<idx, ts>>

\* the index file as 8-byte words, its size in bytes, its row-ids
IndexWords(d) == IF indexFileName \in DOMAIN d THEN d[indexFileName] ELSE <<>>
IndexSize(d) == 8 * Len(IndexWords(d))
IndexRowIds(d) == [k \in 1..(Len(IndexWords(d)) \div 2) |-> IndexWords(d)[2 * k - 1]]

\* ------------------------------------------------------------ OpenColumnFS
\* The loop over os.ReadDir (store.go 214-238), one entry at a time.
\* acc: [out, handles, indexSize]; out is "" while the loop goes on.
OpenEntry(acc, name, d) ==
    IF acc.out # "" \/ ~HasSuffix(name, extension) THEN acc
    ELSE LET size == IF name = indexFileName THEN IndexSize(d) ELSE acc.indexSize
             parts == Split(TrimSuffix(name, <<".">> \o extension), ".")
         IN  IF Len(parts) # 2
             THEN [acc EXCEPT !.out = "err", !.indexSize = size]
             ELSE IF columnSuffixToType(parts[2]) = "none"
             THEN [acc EXCEPT !.out = "panic", !.indexSize = size]
             ELSE [acc EXCEPT !.indexSize = size,
                              !.handles = Put(acc.handles, parts[1],
                                              NewHandle(name, columnSuffixToType(parts[2])))]

\* The entries are taken in an arbitrary fixed order; os.ReadDir sorts them by
\* name, which matters only when two entries are both bad.
RECURSIVE OpenEntries(_, _, _)
OpenEntries(acc, names, d) ==
    IF names = {} THEN acc
    ELSE LET n == CHOOSE x \in names : TRUE
         IN  OpenEntries(OpenEntry(acc, n, d), names \ {n}, d)

\* OpenColumnFS as a function of the directory: [out, fs]
OpenResult(d) ==
    LET start == [out |-> "", indexSize |-> 0,
                  handles |-> Put(EmptyMap, indexFileName,
                                  NewHandle(indexFileName, ColumnTypeInt64))]
        acc == OpenEntries(start, DOMAIN d, d)
    IN  IF acc.out # "" THEN [out |-> acc.out, fs |-> NoFS]
        ELSE IF acc.indexSize % 16 # 0 THEN [out |-> "panic", fs |-> NoFS]
        ELSE [out |-> "",
              fs |-> [open |-> TRUE, nextID |-> acc.indexSize \div 16,
                      columnHandles |-> acc.handles]]

AllIdle == \A p \in Procs : pc[p] = "idle"

\* no write descriptor of the instance is open (it was closed, or never wrote)
AllClosed == \A n \in DOMAIN fs.columnHandles : ~fs.columnHandles[n].writeFp

\* The client opens the directory when it holds no instance with open files;
\* on an error or panic it holds no instance.
OpenColumnFS(p) ==
    /\ AllIdle
    /\ UNCHANGED <<readerVars, readFps>>
    /\ AllClosed
    /\ LET r == OpenResult(dir) IN
        /\ fs' = r.fs
        /\ ret' = Ret("Open", p, EmptyMap, 0, r.out, <<>>)
    /\ lock' = NoProc
    /\ UNCHANGED <<dir, now, pc, fields, pending, index, lastID,
                   okCount, partialCount, ioFailures>>

\* ColumnFS.Close: every handle's write descriptor is closed
Close(p) ==
    /\ fs.open
    /\ UNCHANGED <<readerVars, readFps>>
    /\ AllIdle
    /\ fs' = [fs EXCEPT !.columnHandles =
                  [n \in DOMAIN fs.columnHandles |->
                      [fs.columnHandles[n] EXCEPT !.writeFp = FALSE]]]
    /\ ret' = Ret("Close", p, EmptyMap, 0, "", <<>>)
    /\ UNCHANGED <<dir, lock, now, pc, fields, pending, index, lastID,
                   okCount, partialCount, ioFailures>>

\* ------------------------------------------------- ColumnFS.WriteColumns
\* the orders in which `range fields` may visit the attributes
Orders(S) ==
    {o \in [1..Cardinality(S) -> S] : \A i, j \in DOMAIN o : o[i] = o[j] => i = j}

IsReserved_Exact(name) == name = reservedPrefix

IsReserved(name) == HasPrefix(name, reservedPrefix)

\* the first loop (store.go 252-263) over the attributes in one order
RECURSIVE RegisterLoop(_, _, _)
RegisterLoop(handles, order, flds) ==
    IF order = <<>> THEN [err |-> "", handles |-> handles]
    ELSE LET name == Head(order) IN
         IF IsReserved(name) THEN [err |-> "reserved", handles |-> handles]
         ELSE IF name \in DOMAIN handles
         THEN RegisterLoop(handles, Tail(order), flds)
         ELSE LET typ == valueColumnType(flds[name])
                  ch == NewHandle(makeColumnFileName(name, typ), typ)
              IN  RegisterLoop(Put(handles, name, ch), Tail(order), flds)

InAppend(p) == pc[p] \in {"lock", "register", "index", "columns"}
Unlocked_Always(l) == TRUE

Unlocked(l) == l = NoProc
IndexEntries(d) == Len(IndexWords(d)) \div 2

\* the caller invokes Append(flds) -> WriteColumns(flds)
AppendCall(p, flds) ==
    /\ fs.open
    /\ UNCHANGED <<readerVars, readFps>>
    /\ pc[p] = "idle"
    /\ IndexEntries(dir) + Cardinality({q \in Procs : InAppend(q)}) < MaxRows
    /\ pc' = [pc EXCEPT ![p] = "lock"]
    /\ fields' = [fields EXCEPT ![p] = flds]
    /\ UNCHANGED <<dir, fs, lock, now, pending, index, lastID, ret,
                   okCount, partialCount, ioFailures>>

\* fs.lock.Lock()
Lock(p) ==
    /\ pc[p] = "lock"
    /\ UNCHANGED <<readerVars, readFps>>
    /\ Unlocked(lock)
    /\ lock' = p
    /\ pc' = [pc EXCEPT ![p] = "register"]
    /\ UNCHANGED <<dir, fs, now, fields, pending, index, lastID, ret,
                   okCount, partialCount, ioFailures>>

Unlock_Skipped(l, p) == l

\* defer fs.lock.Unlock()
Unlock(l, p) == IF l = p THEN NoProc ELSE l

\* a return of WriteColumns: the deferred Unlock, the locals gone
Return(p, r) ==
    /\ lock' = Unlock(lock, p)
    /\ pc' = [pc EXCEPT ![p] = "idle"]
    /\ fields' = [fields EXCEPT ![p] = EmptyMap]
    /\ pending' = [pending EXCEPT ![p] = {}]
    /\ index' = [index EXCEPT ![p] = 0]
    /\ ret' = r

\* store.go 252-263: reject reserved names, register unseen attributes
Register(p) ==
    /\ pc[p] = "register"
    /\ UNCHANGED <<readerVars, readFps>>
    /\ \E order \in Orders(DOMAIN fields[p]) :
         LET r == RegisterLoop(fs.columnHandles, order, fields[p]) IN
         /\ fs' = [fs EXCEPT !.columnHandles = r.handles]
         /\ IF r.err # ""
            THEN /\ Return(p, Ret("Append", p, fields[p], 0, r.err, <<>>))
                 /\ UNCHANGED <<dir, now, lastID, okCount, partialCount, ioFailures>>
            ELSE /\ pc' = [pc EXCEPT ![p] = "index"]
                 /\ UNCHANGED <<dir, lock, now, fields, pending, index, lastID, ret,
                                okCount, partialCount, ioFailures>>

FailureAllowed(io) == io = "ok" \/ ioFailures < MaxIOFailures

\* store.go 265-274: take the row-id, write the index entry
WriteIndex(p, io) ==
    /\ pc[p] = "index"
    /\ UNCHANGED <<readerVars, readFps>>
    /\ io \in IOOutcomes(fs.columnHandles[indexFileName])
    /\   LET idx == fs.nextID
             w == HandleWrite(dir, fs.columnHandles[indexFileName],
                              IndexRecord(idx, now), io)
         IN
         /\ FailureAllowed(io)
         /\ now' = now + 1
         /\ dir' = w.dir
         /\ fs' = [fs EXCEPT !.columnHandles[indexFileName] = w.h]
         /\ IF w.err # ""
            THEN /\ Return(p, Ret("Append", p, fields[p], idx, "indexwrite", <<>>))
                 /\ ioFailures' = ioFailures + 1
                 /\ UNCHANGED <<lastID, okCount, partialCount>>
            ELSE /\ pc' = [pc EXCEPT ![p] = "columns"]
                 /\ index' = [index EXCEPT ![p] = idx]
                 /\ pending' = [pending EXCEPT ![p] = DOMAIN fields[p]]
                 /\ UNCHANGED <<lock, fields, lastID, ret, okCount, partialCount,
                                ioFailures>>

\* store.go 275-280: one iteration of the column loop
WriteColumn(p, io) ==
    /\ pc[p] = "columns"
    /\ UNCHANGED <<readerVars, readFps>>
    /\ \E name \in pending[p] :
         LET cf == fs.columnHandles[name]
             e == EncodeRecord(cf.typ, index[p], fields[p][name])
         IN
         IF e.panic
         THEN /\ Return(p, Ret("Append", p, fields[p], index[p], "panic", <<>>))
              /\ partialCount' = partialCount + 1
              /\ UNCHANGED <<dir, fs, now, lastID, okCount, ioFailures>>
         ELSE LET w == HandleWrite(dir, cf, <<e.rec>>, io) IN
              /\ io \in IOOutcomes(cf)
              /\ FailureAllowed(io)
              /\ dir' = w.dir
              /\ fs' = [fs EXCEPT !.columnHandles[name] = w.h]
              /\ IF w.err # ""
                 THEN /\ Return(p, Ret("Append", p, fields[p], index[p], "columnwrite", <<>>))
                      /\ partialCount' = partialCount + 1
                      /\ ioFailures' = ioFailures + 1
                      /\ UNCHANGED <<now, lastID, okCount>>
                 ELSE /\ pending' = [pending EXCEPT ![p] = pending[p] \ {name}]
                      /\ UNCHANGED <<lock, now, pc, fields, index, lastID, ret,
                                     okCount, partialCount, ioFailures>>

NextID_Stuck(id) == id

NextID(id) == id + 1

\* store.go 281-282: every column written, advance nextID, return nil
Finish(p) ==
    /\ pc[p] = "columns"
    /\ UNCHANGED <<readerVars, readFps>>
    /\ pending[p] = {}
    /\ fs' = [fs EXCEPT !.nextID = NextID(fs.nextID)]
    /\ Return(p, Ret("Append", p, fields[p], index[p], "", <<>>))
    /\ okCount' = okCount + 1
    /\ UNCHANGED <<dir, now, lastID, partialCount, ioFailures>>

\* ---------------------------------------------------- castValueToColumnType
Digits == <<"0", "1", "2", "3", "4", "5", "6", "7", "8", "9">>
IsDigit(c) == \E i \in 1..10 : Digits[i] = c
DigitVal(c) == (CHOOSE i \in 1..10 : Digits[i] = c) - 1

RECURSIVE DigitsValue(_, _)
DigitsValue(s, acc) ==
    IF s = <<>> THEN acc ELSE DigitsValue(Tail(s), 10 * acc + DigitVal(Head(s)))

\* strconv.ParseInt(s, 10, 64): ok = FALSE is err != nil
ParseInt(s) ==
    LET signed == s # <<>> /\ Head(s) \in {"+", "-"}
        body == IF signed THEN Tail(s) ELSE s
    IN  IF body # <<>> /\ \A i \in 1..Len(body) : IsDigit(body[i])
        THEN [ok |-> TRUE,
              n |-> IF signed /\ Head(s) = "-" THEN 0 - DigitsValue(body, 0)
                    ELSE DigitsValue(body, 0)]
        ELSE [ok |-> FALSE, n |-> 0]

\* strconv.ParseFloat(s, 64) on decimal integers and on d.0 / d.5 (the floats
\* the model can hold, in halves); every other string is taken as unparsable.
ParseFloat(s) ==
    LET parts == Split(s, ".") IN
    IF Len(parts) = 1 /\ ParseInt(s).ok
    THEN [ok |-> TRUE, f |-> 2 * ParseInt(s).n]
    ELSE IF /\ Len(parts) = 2
            /\ ParseInt(parts[1]).ok
            /\ parts[2] \in {<<"0">>, <<"5">>}
            /\ ParseInt(parts[1]).n >= 0
    THEN [ok |-> TRUE,
          f |-> 2 * ParseInt(parts[1]).n + (IF parts[2] = <<"5">> THEN 1 ELSE 0)]
    ELSE [ok |-> FALSE, f |-> 0]

RECURSIVE FormatNat(_)
FormatNat(n) ==
    IF n < 10 THEN <<Digits[n + 1]>>
    ELSE FormatNat(n \div 10) \o <<Digits[(n % 10) + 1]>>

\* fmt.Sprintf("%d", n)
FormatInt(n) == IF n < 0 THEN <<"-">> \o FormatNat(0 - n) ELSE FormatNat(n)

\* fmt.Sprintf("%f", f) for f given in halves
FormatFloat(h) ==
    LET a == IF h < 0 THEN 0 - h ELSE h IN
    (IF h < 0 THEN <<"-">> ELSE <<>>) \o FormatNat(a \div 2) \o <<".">>
        \o (IF a % 2 = 1 THEN <<"5">> ELSE <<"0">>) \o <<"0", "0", "0", "0", "0">>

\* math.Round on halves: half away from zero
Round(h) ==
    IF h >= 0 THEN (h + 1) \div 2 ELSE 0 - ((1 - h) \div 2)

ToLower(c) ==
    CASE c = "T" -> "t" [] c = "R" -> "r" [] c = "U" -> "u" [] c = "E" -> "e"
      [] OTHER -> c

\* strings.EqualFold over the letters the model uses
EqualFold(s, t) ==
    /\ Len(s) = Len(t)
    /\ \A i \in 1..Len(s) : ToLower(s[i]) = ToLower(t[i])

\* In the multi-type cases v keeps the type any, so `v != 0` compares the
\* interface with int(0): false only for an int holding 0.
valueToBool(v) ==
    CASE v.k = "bool" -> v.v
      [] v.k \in IntKinds -> ~(v.k = "int" /\ v.v = 0)
      [] v.k = "float64" -> TRUE
      [] v.k = "string" -> EqualFold(v.v, <<"t", "r", "u", "e">>)

valueToInt64(v) ==
    CASE v.k = "bool" -> IF v.v THEN 1 ELSE 0
      [] v.k = "int64" -> v.v
      [] v.k = "int" -> toUint64(v).u
      [] v.k = "float64" -> Round(toFloat64(v).f)
      [] v.k = "string" -> IF ParseInt(v.v).ok THEN ParseInt(v.v).n ELSE 0

valueToFloat64(v) ==
    CASE v.k = "bool" -> IF v.v THEN 2 ELSE 0
      [] v.k \in IntKinds -> 2 * toUint64(v).u
      [] v.k = "float64" -> v.v
      [] v.k = "string" -> IF ParseFloat(v.v).ok THEN ParseFloat(v.v).f ELSE 0

valueToString(v) ==
    CASE v.k = "bool" -> IF v.v THEN <<"t", "r", "u", "e">> ELSE <<"f", "a", "l", "s", "e">>
      [] v.k \in IntKinds -> FormatInt(v.v)
      [] v.k = "float64" -> FormatFloat(v.v)
      [] v.k = "string" -> v.v

castValueToColumnType(v, typ) ==
    CASE typ = ColumnTypeBool -> VBool(valueToBool(v))
      [] typ = ColumnTypeString -> VStr(valueToString(v))
      [] typ = ColumnTypeInt64 -> VInt64(valueToInt64(v))
      [] typ = ColumnTypeFloat64 -> VFloat64(valueToFloat64(v))

\* ------------------------------------------------------------ conditionals
ConditionEquals == "Equals"
ConditionNotEquals == "NotEquals"
ConditionLessThan == "LessThan"
ConditionGreaterThan == "GreaterThan"

\* is conditionals[cond][typ] a function (not the nil of a missing key)
HasConditional(cond, typ) ==
    CASE cond \in {ConditionEquals, ConditionNotEquals} -> TRUE
      [] cond = ConditionLessThan -> typ \in {ColumnTypeInt64, ColumnTypeFloat64}
      [] cond = ConditionGreaterThan ->
            typ \in {ColumnTypeInt64, ColumnTypeFloat64, ColumnTypeString}

conditionals_EqualsAsNotEquals(cond, typ, a, b) ==
    CASE cond = ConditionEquals -> a.v # b.v
      [] cond = ConditionNotEquals -> a.v # b.v
      [] cond = ConditionLessThan -> a.v < b.v
      [] cond = ConditionGreaterThan -> a.v # b.v

\* conditionals[cond][typ](a, b)
conditionals(cond, typ, a, b) ==
    CASE cond = ConditionEquals -> a.v = b.v
      [] cond = ConditionNotEquals -> a.v # b.v
      [] cond = ConditionLessThan -> a.v < b.v
      [] cond = ConditionGreaterThan -> a.v # b.v

\* ------------------------------------------------------ ColumnarStore.Query
\* ColumnHandle.createReader: os.OpenFile(path, O_RDONLY) fails on a file
\* that does not exist
CanCreateReader(ch, d) == ch.path \in DOMAIN d

\* store.go 306-314: the attributes the query needs a reader for
QueryCols(q) ==
    {q.Filters[i].Attribute : i \in 1..Len(q.Filters)}
        \cup (IF q.AggregatorAttribute # <<>> THEN {q.AggregatorAttribute} ELSE {})

\* store.go 315-326: a reader for every attribute that has a handle
\* (the attributes without one are simply not in cf)
CreateReaders(q, handles, d) ==
    LET have == {c \in QueryCols(q) : c \in DOMAIN handles} IN
    IF \E c \in have : ~CanCreateReader(handles[c], d)
    THEN [err |-> "io", cf |-> EmptyMap]
    ELSE [err |-> "",
          cf |-> [c \in have |-> NewReader(handles[c].path, handles[c].typ)]]

\* the row the loop starts from (store.go 330-333)
SeedRow(i) == Put(Put(EmptyMap, IndexKey, VInt64(i)), TimestampKey, VInt(0))

\* store.go 334-350: the filters of one row, in order. res: "pass", "fail",
\* "err" or "panic"; cf is the readers afterwards.
RECURSIVE ScanFilters(_, _, _, _, _)
ScanFilters(i, fl, cf, row, d) ==
    IF fl = <<>> THEN [res |-> "pass", cf |-> cf, row |-> row]
    ELSE LET f == Head(fl) IN
         IF f.Attribute \notin DOMAIN cf
         THEN [res |-> "panic", cf |-> cf, row |-> row]
         ELSE LET cr == cf[f.Attribute]
                  s == SeekToIndex(cr, d[cr.path], i)
                  cf2 == Put(cf, f.Attribute, s.cr)
              IN  CASE s.res = "panic" -> [res |-> "panic", cf |-> cf2, row |-> row]
                    [] s.res = "err" -> [res |-> "err", cf |-> cf2, row |-> row]
                    [] s.res = "absent" -> [res |-> "fail", cf |-> cf2, row |-> row]
                    [] s.res = "val" ->
                         IF ~HasConditional(f.Condition, cr.typ)
                         THEN [res |-> "panic", cf |-> cf2, row |-> row]
                         ELSE IF ~conditionals(f.Condition, cr.typ, s.val,
                                               castValueToColumnType(f.Value, cr.typ))
                         THEN [res |-> "fail", cf |-> cf2, row |-> row]
                         ELSE ScanFilters(i, Tail(fl), cf2,
                                          Put(row, f.Attribute, s.val), d)

\* store.go 328-356: the rows i .. lastID-1
RECURSIVE ScanRows(_, _, _, _, _, _)
ScanRows(i, last, q, cf, rows, d) ==
    IF i >= last THEN [err |-> "", rows |-> rows]
    ELSE LET r == ScanFilters(i, q.Filters, cf, SeedRow(i), d) IN
         CASE r.res = "panic" -> [err |-> "panic", rows |-> <<>>]
           [] r.res = "err" -> [err |-> "io", rows |-> <<>>]
           [] r.res = "pass" -> ScanRows(i + 1, last, q, r.cf, Append(rows, r.row), d)
           [] r.res = "fail" -> ScanRows(i + 1, last, q, r.cf, rows, d)

\* Query from store.go 306 on, given the lastID read at store.go 304
QueryResult(q, last, handles, d) ==
    LET c == CreateReaders(q, handles, d) IN
    IF c.err # "" THEN [err |-> c.err, rows |-> <<>>]
    ELSE ScanRows(0, last, q, c.cf, <<>>, d)

\* The files the loop of store.go 316-326 has opened for reading when Query
\* goes on or returns the error: all of them, or, when a createReader fails,
\* those the loop visited before the failing one (any subset of the others).
OpenedReaders(q, handles, d) ==
    LET have == {c \in QueryCols(q) : c \in DOMAIN handles}
        can == {c \in have : CanCreateReader(handles[c], d)}
    IN  IF can = have THEN {{handles[c].path : c \in have}}
        ELSE {{handles[c].path : c \in S} : S \in SUBSET can}

\* The readers Query closes before it returns: store.go 303-357 has no call
\* of ColumnReader.Close, on any path.
ClosedOnReturn(opened) == {}

\* store.go 304: lastID := s.fs.nextID, no lock taken
QueryCall(p) ==
    /\ fs.open
    /\ UNCHANGED <<readerVars, readFps>>
    /\ pc[p] = "idle"
    /\ pc' = [pc EXCEPT ![p] = "scan"]
    /\ lastID' = [lastID EXCEPT ![p] = fs.nextID]
    /\ UNCHANGED <<dir, fs, lock, now, fields, pending, index, ret,
                   okCount, partialCount, ioFailures>>

\* store.go 306-356: readers, the scan, the return; q is the query passed
QueryScan(p, q) ==
    /\ pc[p] = "scan"
    /\ UNCHANGED readerVars
    /\ LET r == QueryResult(q, lastID[p], fs.columnHandles, dir) IN
         ret' = Ret("Query", p, q, lastID[p], r.err, r.rows)
    /\ \E opened \in OpenedReaders(q, fs.columnHandles, dir) :
         readFps' = opened \ ClosedOnReturn(opened)
    /\ pc' = [pc EXCEPT ![p] = "idle"]
    /\ lastID' = [lastID EXCEPT ![p] = 0]
    /\ UNCHANGED <<dir, fs, lock, now, fields, pending, index,
                   okCount, partialCount, ioFailures>>

\* ------------------------------------------------------------------ inputs
Filter(a, c, v) == [Attribute |-> a, Condition |-> c, Value |-> v]
Query(fl) == [Filters |-> fl, AggregatorAttribute |-> <<>>]

ValValues == {VInt(0), VInt(1), VInt(2)}
MainValues == {VBool(TRUE), VBool(FALSE)}

\* the records over the attributes val and main with values from the two sets
RecordsOver(vals, mains) ==
    UNION {{r \in [S -> vals \cup mains] :
               \A a \in S : r[a] \in (IF a = ValName THEN vals ELSE mains)} :
             S \in SUBSET {ValName, MainName}}

ReservedRecords ==
    {Put(EmptyMap, FooName, VInt(1)),
     Put(Put(EmptyMap, FooName, VInt(1)), ValName, VInt(0))}

ValFilters == {Filter(ValName, ConditionEquals, v) : v \in ValValues}
MainFilters == {Filter(MainName, ConditionEquals, VBool(TRUE))}
NoColFilters == {Filter(NoColName, ConditionEquals, VInt(0))}

Queries ==
    {Query(<<>>)}
        \cup {Query(<<f>>) : f \in ValFilters \cup MainFilters \cup NoColFilters}
        \cup {Query(<<f, g>>) : f \in ValFilters, g \in MainFilters}
        \cup {Query(<<g, f>>) : f \in ValFilters, g \in MainFilters}

\* ----------------------------------------------------------- specification
Init ==
    /\ dir = EmptyMap
    /\ fs = OpenResult(EmptyMap).fs
    /\ lock = NoProc
    /\ now = 0
    /\ pc = [p \in Procs |-> "idle"]
    /\ fields = [p \in Procs |-> EmptyMap]
    /\ pending = [p \in Procs |-> {}]
    /\ index = [p \in Procs |-> 0]
    /\ lastID = [p \in Procs |-> 0]
    /\ ret = NoRet
    /\ okCount = 0
    /\ partialCount = 0
    /\ ioFailures = 0
    /\ rd = NoReader
    /\ rdRet = NoSeek
    /\ targets = <<>>
    /\ readFps = {}

IO == {"ok", "openfail", "writefail"}

\* One client calling the store, one call at a time, on a file system whose
\* writes may fail.
MainProc == 1
FailRecords == RecordsOver({VInt(0)}, {VBool(TRUE)}) \cup ReservedRecords

Next ==
    \/ OpenColumnFS(MainProc)
    \/ Close(MainProc)
    \/ \E flds \in FailRecords : AppendCall(MainProc, flds)
    \/ Lock(MainProc)
    \/ Register(MainProc)
    \/ \E io \in IO : WriteIndex(MainProc, io)
    \/ \E io \in IO : WriteColumn(MainProc, io)
    \/ Finish(MainProc)

Spec == Init /\ [][Next]_vars

\* One client appending and querying (store_test.go), no I/O failure.
QueryRecords == RecordsOver(ValValues, {VBool(TRUE)})

NextQuery ==
    \/ \E flds \in QueryRecords : AppendCall(MainProc, flds)
    \/ Lock(MainProc)
    \/ Register(MainProc)
    \/ WriteIndex(MainProc, "ok")
    \/ WriteColumn(MainProc, "ok")
    \/ Finish(MainProc)
    \/ QueryCall(MainProc)
    \/ \E q \in Queries : QueryScan(MainProc, q)

SpecQuery == Init /\ [][NextQuery]_vars

\* Several clients calling Append on one open store at once, each with a
\* single-attribute record.
SingleRecords ==
    {r \in RecordsOver({VInt(0), VInt(1)}, {VBool(TRUE)}) : Cardinality(DOMAIN r) = 1}

NextConc ==
    \E p \in Procs :
        \/ \E flds \in SingleRecords : AppendCall(p, flds)
        \/ Lock(p)
        \/ Register(p)
        \/ \E io \in IO : WriteIndex(p, io)
        \/ \E io \in IO : WriteColumn(p, io)
        \/ Finish(p)

SpecConc == Init /\ [][NextConc]_vars

\* ------------------------------------------------------------- one reader
\* A caller holding one ColumnReader on the column val of a store whose rows
\* 0..MaxRows-1 were appended without failure, val supplied on the rows S.
Samples(typ) ==
    CASE typ = ColumnTypeBool -> {VBool(TRUE), VBool(FALSE)}
      [] typ = ColumnTypeInt64 -> {VInt(0), VInt(5)}
      [] typ = ColumnTypeFloat64 -> {VFloat64(3)}
      [] typ = ColumnTypeString -> {VStr(<<>>), VStr(<<"a", "b">>)}

\* the column file after the rows of S were appended with the values vals
RECURSIVE ColumnFile(_, _, _)
ColumnFile(typ, S, vals) ==
    IF S = {} THEN <<>>
    ELSE LET i == CHOOSE x \in S : \A y \in S : x <= y
         IN  <<EncodeRecord(typ, i, vals[i]).rec>> \o ColumnFile(typ, S \ {i}, vals)

RECURSIVE IndexFile(_, _)
IndexFile(i, n) ==
    IF i >= n THEN <<>> ELSE IndexRecord(i, i) \o IndexFile(i + 1, n)

InitReader ==
    /\ \E typ \in ColumnTypes, S \in (SUBSET (0..(MaxRows - 1))) \ {{}} :
         \E vals \in [S -> Samples(typ)] :
           LET path == makeColumnFileName(ValName, typ) IN
           /\ dir = Put(Put(EmptyMap, indexFileName, IndexFile(0, MaxRows)),
                        path, ColumnFile(typ, S, vals))
           /\ fs = [open |-> TRUE, nextID |-> MaxRows,
                    columnHandles |->
                        Put(Put(EmptyMap, indexFileName,
                                [NewHandle(indexFileName, ColumnTypeInt64)
                                   EXCEPT !.writeFp = TRUE]),
                            ValName, [NewHandle(path, typ) EXCEPT !.writeFp = TRUE])]
    /\ lock = NoProc
    /\ now = MaxRows
    /\ pc = [p \in Procs |-> "idle"]
    /\ fields = [p \in Procs |-> EmptyMap]
    /\ pending = [p \in Procs |-> {}]
    /\ index = [p \in Procs |-> 0]
    /\ lastID = [p \in Procs |-> 0]
    /\ ret = NoRet
    /\ okCount = MaxRows
    /\ partialCount = 0
    /\ ioFailures = 0
    /\ rd = NoReader
    /\ rdRet = NoSeek
    /\ targets = <<>>
    /\ readFps = {}

storeVars == <<dir, fs, lock, now, pc, fields, pending, index, lastID, ret,
               okCount, partialCount, ioFailures, readFps>>

\* ColumnHandle.createReader on the handle of attribute name
CreateReader(name) ==
    /\ rd = NoReader
    /\ name \in DOMAIN fs.columnHandles
    /\ CanCreateReader(fs.columnHandles[name], dir)
    /\ rd' = NewReader(fs.columnHandles[name].path, fs.columnHandles[name].typ)
    /\ rdRet' = NoSeek
    /\ targets' = <<>>
    /\ UNCHANGED storeVars

\* ColumnReader.SeekToIndex(targetIndex) on the reader held
Seek(targetIndex) ==
    /\ rd # NoReader
    /\ rdRet.res # "panic"
    /\ Len(targets) < MaxSeeks
    /\ LET s == SeekToIndex(rd, dir[rd.path], targetIndex) IN
         /\ rd' = s.cr
         /\ rdRet' = [res |-> s.res, val |-> s.val]
    /\ targets' = Append(targets, targetIndex)
    /\ UNCHANGED storeVars

\* ColumnReader.Close; the caller drops the reader
CloseReader ==
    /\ rd # NoReader
    /\ rd' = NoReader
    /\ rdRet' = NoSeek
    /\ targets' = <<>>
    /\ UNCHANGED storeVars

NextReader ==
    \/ CreateReader(ValName)
    \/ \E t \in 0..(MaxRows - 1) : Seek(t)
    \/ CloseReader

SpecReader == InitReader /\ [][NextReader]_vars

\* ================================================================== claims
InColumns(p) == pc[p] = "columns"
AscendingFromZero(ids) == \A k \in 1..Len(ids) : ids[k] = k - 1

\* C1: after N successful Append calls on a store that started empty (no call
\* in progress, no call that failed after writing its index entry), the index
\* file holds exactly N entries, the k-th carrying row-id k-1.
C1_RowIdMonotonicity ==
    (partialCount = 0 /\ \A p \in Procs : ~InColumns(p))
        => /\ Len(IndexRowIds(dir)) = okCount
           /\ AscendingFromZero(IndexRowIds(dir))
           /\ IndexSize(dir) = 16 * okCount

C1_Witness ==
    /\ okCount >= 3
    /\ partialCount = 0
    /\ AllIdle
    /\ IndexRowIds(dir) = <<0, 1, 2>>

\* C2: concurrent Append calls never have two calls between Lock and Unlock at
\* once, and as long as no call failed after its index write the index holds
\* the row-ids 0..M-1 once each, M the calls that have written their entry.
C2_ConcurrentAppendSerialization ==
    /\ Cardinality({p \in Procs : pc[p] \in {"register", "index", "columns"}}) <= 1
    /\ \A p \in Procs : pc[p] \in {"register", "index", "columns"} => lock = p
    /\ partialCount = 0 =>
         /\ AscendingFromZero(IndexRowIds(dir))
         /\ Len(IndexRowIds(dir)) = okCount + Cardinality({p \in Procs : InColumns(p)})

C2_Witness ==
    \E p, q \in Procs :
        /\ p # q
        /\ InColumns(p) /\ pc[q] = "lock"
        /\ fields[p] # fields[q]
        /\ index[p] = 1
        /\ IndexRowIds(dir) = <<0, 1>>
        /\ partialCount = 0

\* C3: closing a store that holds K >= 1 successfully appended rows and
\* opening the directory again succeeds and resumes at row-id K = size / 16.
C3_ReopenResumes ==
    (ret.op = "Open" /\ okCount >= 1 /\ partialCount = 0 /\ AllIdle)
        => /\ ret.err = ""
           /\ fs.open
           /\ fs.nextID = okCount
           /\ fs.nextID = IndexSize(dir) \div 16

\* the column val holds, for every row i < n, the entry (i, i)
DenseVal(n) ==
    LET path == makeColumnFileName(ValName, ColumnTypeInt64) IN
    n = 0 \/ /\ path \in DOMAIN dir
             /\ Len(dir[path]) >= n
             /\ \A i \in 0..(n - 1) : dir[path][i + 1] = [index |-> i, data |-> i]

IsValEquals(q) ==
    /\ Len(q.Filters) = 1
    /\ q.Filters[1].Attribute = ValName
    /\ q.Filters[1].Condition = ConditionEquals
    /\ q.Filters[1].Value.k = "int"

\* C4: on a store whose rows 0..N-1 all supplied val = row index, the query
\* `val Equals c` returns exactly the row c (if c < N), carrying __index = c
\* and val = c, and no other row.
C4_QueryValEquals ==
    (ret.op = "Query" /\ IsValEquals(ret.args) /\ DenseVal(ret.index))
        => LET c == ret.args.Filters[1].Value.v IN
           /\ ret.err = ""
           /\ ret.rows = IF c < ret.index
                         THEN <<Put(SeedRow(c), ValName, VInt64(c))>>
                         ELSE <<>>

C4_Witness ==
    /\ ret.op = "Query" /\ IsValEquals(ret.args) /\ DenseVal(ret.index)
    /\ ret.index = 3
    /\ ret.args.Filters[1].Value = VInt(1)
    /\ Len(ret.rows) = 1
    /\ ret.rows[1][IndexKey] = VInt64(1)
    /\ ret.rows[1][ValName] = VInt64(1)

\* the position in the file of the entry of row i, 0 if it has none
EntryPos(file, i) ==
    IF \E k \in 1..Len(file) : file[k].index = i
    THEN CHOOSE k \in 1..Len(file) : file[k].index = i /\ \A j \in 1..(k - 1) : file[j].index # i
    ELSE 0

\* does row i satisfy filter f, going by the column's entries
RowSatisfies(f, i, handles, d) ==
    LET ch == handles[f.Attribute]
        pos == EntryPos(d[ch.path], i)
    IN  /\ pos # 0
        /\ conditionals(f.Condition, ch.typ, DecodeNext(ch.typ, d[ch.path], pos).val,
                        castValueToColumnType(f.Value, ch.typ))

\* the row the claim expects for a row-id that satisfies every filter
RECURSIVE ExpectedRow(_, _, _, _)
ExpectedRow(fl, i, handles, d) ==
    IF fl = <<>> THEN SeedRow(i)
    ELSE LET f == fl[Len(fl)]
             ch == handles[f.Attribute]
         IN  Put(ExpectedRow(SubSeq(fl, 1, Len(fl) - 1), i, handles, d), f.Attribute,
                 DecodeNext(ch.typ, d[ch.path], EntryPos(d[ch.path], i)).val)

RECURSIVE ExpectedRows(_, _, _, _, _)
ExpectedRows(i, last, q, handles, d) ==
    IF i >= last THEN <<>>
    ELSE (IF \A k \in 1..Len(q.Filters) : RowSatisfies(q.Filters[k], i, handles, d)
          THEN <<ExpectedRow(q.Filters, i, handles, d)>> ELSE <<>>)
            \o ExpectedRows(i + 1, last, q, handles, d)

\* every filtered attribute has a column with an entry below the snapshot
HasEntriesBelow(q, last) ==
    \A k \in 1..Len(q.Filters) :
        LET a == q.Filters[k].Attribute IN
        /\ a \in DOMAIN fs.columnHandles
        /\ fs.columnHandles[a].path \in DOMAIN dir
        /\ \E j \in 1..Len(dir[fs.columnHandles[a].path]) :
              dir[fs.columnHandles[a].path][j].index < last

\* C5: a query with one or more filters (here: every filtered attribute has
\* a column with entries) returns exactly the rows below the snapshot last
\* row-id whose filtered attributes all have an entry satisfying the
\* condition, in ascending row-id order.
C5_QueryFilterSemantics ==
    (ret.op = "Query" /\ Len(ret.args.Filters) >= 1 /\ HasEntriesBelow(ret.args, ret.index))
        => /\ ret.err = ""
           /\ ret.rows = ExpectedRows(0, ret.index, ret.args, fs.columnHandles, dir)

\* C7: a query filtering on an attribute that has no column completes without
\* error or crash and returns no row.
C7_MissingColumnIsAbsent ==
    (/\ ret.op = "Query"
     /\ \E k \in 1..Len(ret.args.Filters) :
           ret.args.Filters[k].Attribute \notin DOMAIN fs.columnHandles)
        => ret.err = "" /\ ret.rows = <<>>

\* C8: when a column write fails after the index entry for the row-id was
\* written, the row-id is consumed: nextID has advanced past it.
C8_FailedRowIdConsumed ==
    (ret.op = "Append" /\ ret.err = "columnwrite" /\ fs.open)
        => fs.nextID > ret.index

\* C9: the index stream has one entry per row-id, in strictly ascending
\* row-id order, and a length that is a multiple of 16 bytes, whatever Append
\* calls failed part-way.
C9_IndexStrictlyAscending ==
    /\ \A j, k \in 1..Len(IndexRowIds(dir)) :
          j < k => IndexRowIds(dir)[j] < IndexRowIds(dir)[k]
    /\ IndexSize(dir) % 16 = 0

StartsWithTwoUnderscores(name) == Len(name) >= 2 /\ name[1] = "_" /\ name[2] = "_"
HasReservedName(flds) == \E name \in DOMAIN flds : StartsWithTwoUnderscores(name)

\* C10: an Append whose record has an attribute name beginning with `__`
\* writes no index entry, creates no file and leaves nextID alone in every
\* step it takes, and returns the reserved-name error.
C10_ReservedNameRejected ==
    [][\A p \in Procs :
          (HasReservedName(fields[p]) \/ HasReservedName(fields'[p]))
              => /\ dir' = dir
                 /\ fs'.nextID = fs.nextID
                 /\ pc'[p] \in {"lock", "register", "idle"}
                 /\ (pc[p] = "register" /\ pc'[p] = "idle")
                       => (ret'.op = "Append" /\ ret'.err = "reserved"
                           /\ ret'.args = fields[p])]_vars

C10_Witness ==
    /\ ret.op = "Append" /\ ret.err = "reserved"
    /\ Cardinality(DOMAIN ret.args) = 2
    /\ IndexEntries(dir) >= 1
    /\ fs.nextID = IndexEntries(dir)

\* the largest row-id the file has an entry for
MaxIndex(file) ==
    CHOOSE m \in {file[k].index : k \in 1..Len(file)} :
        \A k \in 1..Len(file) : file[k].index <= m

\* C6: a fresh reader on a column supplied on the rows S, asked for the
\* targets 0, 1, ..., max(S) in ascending order, returns "absent" for every
\* target outside S and the stored value for every target in S.
C6_SparseColumnSeek ==
    (/\ rd # NoReader
     /\ targets # <<>>
     /\ AscendingFromZero(targets)
     /\ Len(targets) - 1 <= MaxIndex(dir[rd.path]))
        => LET t == Len(targets) - 1
               file == dir[rd.path]
           IN  IF EntryPos(file, t) = 0
               THEN rdRet.res = "absent"
               ELSE /\ rdRet.res = "val"
                    /\ rdRet.val = DecodeNext(rd.typ, file, EntryPos(file, t)).val

\* C11: on one reader, a seek to a target below a target requested earlier on
\* that reader panics or returns an error, whether the earlier request
\* returned a value or "absent"; it never returns normally.
C11_BackwardSeekRejected ==
    (/\ rd # NoReader
     /\ Len(targets) >= 2
     /\ \E k \in 1..(Len(targets) - 1) : targets[Len(targets)] < targets[k])
        => rdRet.res \in {"panic", "err"}

\* ---------------------------------------------------------- typed appends
\* One client appending single-attribute records whose value changes type
\* from one call to the next, no I/O failure.
TypedValues == {VInt(0), VInt64(1), VFloat64(3), VStr(<<"a">>), VBool(TRUE)}
TypedRecords == {Put(EmptyMap, ValName, v) : v \in TypedValues}

NextTypes ==
    \/ \E flds \in TypedRecords : AppendCall(MainProc, flds)
    \/ Lock(MainProc)
    \/ Register(MainProc)
    \/ WriteIndex(MainProc, "ok")
    \/ WriteColumn(MainProc, "ok")
    \/ Finish(MainProc)

SpecTypes == Init /\ [][NextTypes]_vars

\* the record supplies, for a column that exists, a value of another type
TypeMismatch(flds, handles) ==
    \E name \in DOMAIN flds :
        /\ name \in DOMAIN handles
        /\ valueColumnType(flds[name]) # handles[name].typ

\* C12: an Append that supplies, for an existing column, a value whose type
\* does not match the column's type returns a type-mismatch error to the
\* caller; it does not succeed and does not crash.
C12_TypeMismatchReturnsError ==
    (ret.op = "Append" /\ TypeMismatch(ret.args, fs.columnHandles))
        => ret.err \notin {"", "panic"}

\* ----------------------------------------------------- queries that fail
\* One client appending single-attribute (or empty) records over a bool, an
\* int64 and a string column and querying them, no I/O failure.
ValStringName == <<"v", "a", "l", "_", "s", "t", "r", "i", "n", "g">>

ScanRecords ==
    {EmptyMap,
     Put(EmptyMap, MainName, VBool(TRUE)),
     Put(EmptyMap, ValName, VInt(0)),
     Put(EmptyMap, ValStringName, VStr(<<"a">>))}

ScanQueries ==
    {Query(<<Filter(MainName, ConditionLessThan, VBool(TRUE))>>),
     Query(<<Filter(ValStringName, ConditionLessThan, VStr(<<"a">>))>>),
     Query(<<Filter(ValName, ConditionLessThan, VInt(1))>>),
     Query(<<Filter(MainName, ConditionEquals, VBool(TRUE))>>),
     Query(<<Filter(ValStringName, ConditionEquals, VStr(<<"a">>))>>),
     Query(<<Filter(ValName, ConditionEquals, VInt(0)),
             Filter(ValName, ConditionNotEquals, VInt(1))>>)}

NextScan ==
    \/ \E flds \in ScanRecords : AppendCall(MainProc, flds)
    \/ Lock(MainProc)
    \/ Register(MainProc)
    \/ WriteIndex(MainProc, "ok")
    \/ WriteColumn(MainProc, "ok")
    \/ Finish(MainProc)
    \/ QueryCall(MainProc)
    \/ \E q \in ScanQueries : QueryScan(MainProc, q)

SpecScan == Init /\ [][NextScan]_vars

\* filter f asks LessThan of a column of type bool or string
LessThanUnsupported(f, handles) ==
    /\ f.Condition = ConditionLessThan
    /\ f.Attribute \in DOMAIN handles
    /\ handles[f.Attribute].typ \in {ColumnTypeBool, ColumnTypeString}

\* process p returns from Query in this step
QueryReturns(p) == pc[p] = "scan" /\ pc'[p] = "idle"

\* C13: a Query that asks LessThan of a bool or string column returns an
\* unsupported-combination error, whether or not the column has entries; it
\* neither crashes nor returns a result.
C13_LessThanUnsupported ==
    [][\A p \in Procs :
          (/\ QueryReturns(p)
           /\ \E k \in 1..Len(ret'.args.Filters) :
                 LessThanUnsupported(ret'.args.Filters[k], fs.columnHandles))
              => ret'.err = "unsupported"]_vars

\* ------------------------------------------------------------ round trip
\* IndexedWrite of one value and its decoding by a fresh reader. The store
\* starts inside the Append of {val: v} that was given row-id rowId (rowId
\* empty records were appended before it), its index entry written and its
\* column loop about to run.
MaxInt16 == 32767
MaxUint16 == 65535

\* A string value is held here as a TLA+ string, on whose characters Len,
\* SubSeq and \o act as they do on a sequence of one-character strings.
RECURSIVE Repeat(_, _)
Repeat(s, n) ==
    IF n = 0 THEN ""
    ELSE IF n % 2 = 1 THEN Repeat(s \o s, n \div 2) \o s
    ELSE Repeat(s \o s, n \div 2)

StringOfLen(n) == Repeat("a", n)

CodecValues ==
    {VBool(TRUE), VBool(FALSE), VInt64(0), VInt64(7), VFloat64(0), VFloat64(3),
     VStr(""), VStr("ab")}
        \cup {VStr(StringOfLen(n)) : n \in {MaxInt16, MaxInt16 + 1, MaxUint16}}

InitCodec ==
    /\ \E v \in CodecValues, rowId \in 0..(MaxRows - 1) :
         LET typ == valueColumnType(v)
             path == makeColumnFileName(ValName, typ)
         IN
         /\ dir = Put(EmptyMap, indexFileName, IndexFile(0, rowId + 1))
         /\ fs = [open |-> TRUE, nextID |-> rowId,
                  columnHandles |->
                      Put(Put(EmptyMap, indexFileName,
                              [NewHandle(indexFileName, ColumnTypeInt64)
                                 EXCEPT !.writeFp = TRUE]),
                          ValName, NewHandle(path, typ))]
         /\ fields = [p \in Procs |-> IF p = MainProc THEN Put(EmptyMap, ValName, v)
                                      ELSE EmptyMap]
         /\ pending = [p \in Procs |-> IF p = MainProc THEN {ValName} ELSE {}]
         /\ index = [p \in Procs |-> IF p = MainProc THEN rowId ELSE 0]
         /\ now = rowId + 1
         /\ okCount = rowId
         /\ ret = IF rowId = 0 THEN NoRet
                  ELSE Ret("Append", MainProc, EmptyMap, rowId - 1, "", <<>>)
    /\ lock = MainProc
    /\ pc = [p \in Procs |-> IF p = MainProc THEN "columns" ELSE "idle"]
    /\ lastID = [p \in Procs |-> 0]
    /\ partialCount = 0
    /\ ioFailures = 0
    /\ rd = NoReader
    /\ rdRet = NoSeek
    /\ targets = <<>>
    /\ readFps = {}

\* the row-ids the column of the reader held has an entry for
EntryIds == IF rd = NoReader THEN {} ELSE {dir[rd.path][k].index : k \in 1..Len(dir[rd.path])}

NextCodec ==
    \/ WriteColumn(MainProc, "ok")
    \/ Finish(MainProc)
    \/ CreateReader(ValName)
    \/ \E t \in EntryIds : Seek(t)
    \/ CloseReader

SpecCodec == InitCodec /\ [][NextCodec]_vars

\* the record of the Append that wrote the column
WrittenRecord == IF pc[MainProc] = "columns" THEN fields[MainProc] ELSE ret.args

\* C14: decode is the exact inverse of encode: for a value v of any column
\* type (strings of 0 up to 65535 bytes), IndexedWrite(rowId, v) followed by
\* the first seek of a fresh reader to rowId yields v.
C14_DecodeInvertsEncode ==
    (/\ rd # NoReader
     /\ Len(targets) = 1
     /\ Len(dir[rd.path]) = 1
     /\ dir[rd.path][1].index = targets[1])
        => /\ rdRet.res = "val"
           /\ rdRet.val = WrittenRecord[ValName]

\* ------------------------------------------------------- fair scheduling
\* NumProcs clients appending at once, with every way out of WriteColumns:
\* success, a reserved name, a failed index write, a failed column write and
\* a panic in IndexedWrite (an int for the column val, when the record with
\* the reserved name registered it as a string column before its rejection).
\* A goroutine that can take a step eventually takes it, and sync.Mutex hands
\* the lock to a goroutine that keeps waiting (starvation mode), so Lock is
\* strongly fair.
LiveRecords ==
    {Put(EmptyMap, ValName, VInt(0)),
     Put(Put(EmptyMap, FooName, VInt(1)), ValName, VStr(<<"a">>))}

NextLive ==
    \E p \in Procs :
        \/ \E flds \in LiveRecords : AppendCall(p, flds)
        \/ Lock(p)
        \/ Register(p)
        \/ \E io \in IO : WriteIndex(p, io)
        \/ \E io \in IO : WriteColumn(p, io)
        \/ Finish(p)

Fairness ==
    \A p \in Procs :
        /\ SF_vars(Lock(p))
        /\ WF_vars(Register(p))
        /\ WF_vars(\E io \in IO : WriteIndex(p, io))
        /\ WF_vars(\E io \in IO : WriteColumn(p, io))
        /\ WF_vars(Finish(p))

SpecLive == Init /\ [][NextLive]_vars /\ Fairness

\* C15: the lock is held only by a call between Lock and its return, every
\* call waiting for the lock gets it, and every Append call that starts
\* returns, whichever way it leaves WriteColumns.
C15_AppendReturns ==
    /\ [](\A p \in Procs : lock = p => pc[p] \in {"register", "index", "columns"})
    /\ \A p \in Procs : (pc[p] = "lock") ~> (lock = p)
    /\ \A p \in Procs : InAppend(p) ~> (pc[p] = "idle")

C15_Witness ==
    /\ ret.op = "Append" /\ ret.err = "panic"
    /\ \E q \in Procs : q # ret.p /\ lock = q /\ pc[q] = "columns"
    /\ ioFailures >= 1

\* this step is a SeekToIndex on the reader held
IsSeek == rd # NoReader /\ Len(targets') = Len(targets) + 1

\* the target of the seek of this step
SeekTarget == targets'[Len(targets')]

\* C16: for a column of every type, a seek that reads on and finds the end
\* of the stream returns "absent" with no error.
C16_EndOfStreamIsAbsent ==
    [][(/\ IsSeek
        /\ SeekTarget > rd.curIndex
        /\ rd.pos > Len(dir[rd.path]))
           => rdRet'.res = "absent"]_vars

\* C17: every reader a Query opened is closed when the call returns, on the
\* normal and on the error return: a completed Query leaves no read
\* descriptor open.
C17_QueryClosesReaders ==
    (ret.op = "Query" /\ AllIdle) => readFps = {}

\* C18: a SeekToIndex that repeats the target of the seek before it, which
\* returned a value or "absent", returns the same result and does not panic.
C18_RepeatedSeekIdempotent ==
    [][(/\ IsSeek
        /\ targets # <<>>
        /\ SeekTarget = targets[Len(targets)]
        /\ rdRet.res \in {"val", "absent"})
           => rdRet' = rdRet]_vars

\* C19: an Append rejected for a reserved attribute name leaves the set of
\* registered columns and their types as they were: no handle is registered
\* for the other attributes of the rejected record.
C19_RejectionLeavesRegistry ==
    [][\A p \in Procs :
          (pc[p] = "register" /\ HasReservedName(fields[p]))
              => fs'.columnHandles = fs.columnHandles]_vars

\* --------------------------------------------- Append and Query at once
\* NumProcs clients calling Append and Query on one open store, no I/O
\* failure. Query takes no lock: its reads of fs.nextID and fs.columnHandles
\* interleave with the steps of an Append in progress.
RaceRecords ==
    {Put(EmptyMap, ValName, VInt(0)), Put(EmptyMap, MainName, VBool(TRUE))}

RaceQueries ==
    {Query(<<>>), Query(<<Filter(ValName, ConditionEquals, VInt(0))>>)}

\* process q holds the lock and is about to insert a column into
\* fs.columnHandles (store.go 261)
RegistersNewColumn(q) ==
    /\ pc[q] = "register"
    /\ \E name \in DOMAIN fields[q] :
          ~IsReserved(name) /\ name \notin DOMAIN fs.columnHandles

\* process p is reading fs.columnHandles (store.go 317) while another
\* process is inserting into it
MapRace(p) ==
    /\ pc[p] = "scan"
    /\ \E q \in Procs \ {p} : RegistersNewColumn(q)

\* The map read of store.go 317 overlapping the map write of store.go 261 is
\* a data race: the read sees the map before or after the insert (the
\* interleavings of QueryScan and Register), or the Go runtime stops the
\* program with "fatal error: concurrent map read and map write". This is
\* the last outcome: every goroutine ends, the files stay.
ConcurrentMapFault(p, q) ==
    /\ MapRace(p)
    /\ ret' = Ret("Query", p, q, lastID[p], "fatal", <<>>)
    /\ fs' = NoFS
    /\ lock' = NoProc
    /\ pc' = [x \in Procs |-> "idle"]
    /\ fields' = [x \in Procs |-> EmptyMap]
    /\ pending' = [x \in Procs |-> {}]
    /\ index' = [x \in Procs |-> 0]
    /\ lastID' = [x \in Procs |-> 0]
    /\ UNCHANGED <<dir, now, okCount, partialCount, ioFailures, readerVars, readFps>>

NextRace ==
    \E p \in Procs :
        \/ \E flds \in RaceRecords : AppendCall(p, flds)
        \/ Lock(p)
        \/ Register(p)
        \/ WriteIndex(p, "ok")
        \/ WriteColumn(p, "ok")
        \/ Finish(p)
        \/ QueryCall(p)
        \/ \E q \in RaceQueries : QueryScan(p, q)
        \/ \E q \in RaceQueries : ConcurrentMapFault(p, q)

SpecRace == Init /\ [][NextRace]_vars

\* C20: no Query reads the column-handle registry while an Append is
\* inserting a column into it: the accesses of Query to the state Append
\* writes are ordered with Append's writes.
C20_QueryOrderedWithAppend ==
    \A p \in Procs : ~MapRace(p)

====
